---- MODULE Spec2Model ----
(***************************************************************************)
(* A model of geos::operation::buffer::BufferBuilder                      *)
(* (src/src/operation/buffer/BufferBuilder.cpp): the edge list fed by      *)
(* insertUniqueEdge, the buffer() pipeline with its interrupt polls and    *)
(* its per-component recursion for single-sided buffers,                   *)
(* bufferLineSingleSided with its endpoint trimming, and createSubgraphs   *)
(* followed by buildSubgraphs on a planar graph.                           *)
(*                                                                         *)
(* Coordinates are pairs of integers.  Distances are compared through      *)
(* their squares, scaled by 100, so that the factors 0.1, 0.98 and 1.02    *)
(* of the trimming code are exact.                                         *)
(***************************************************************************)
EXTENDS Integers, Sequences, FiniteSets, TLC

VARIABLES
    builders,   \* the BufferBuilder instances constructed so far
    nInserts,   \* number of insertUniqueEdge calls made from outside the pipeline
    lastEdge,   \* the argument of the latest such call
    stack,      \* the activations of buffer(), innermost last
    interrupt,  \* the cooperative interrupt request flag
    live,       \* heap objects allocated by the running call and not yet deleted
    outcome,    \* what the outermost call returned or threw
    rets,       \* history: what each builder's buffer() returned
    ssb         \* the activation of bufferLineSingleSided

vars == <<builders, nInserts, lastEdge, stack, interrupt, live, outcome, rets, ssb>>

----------------------------------------------------------------------------
(* Bounds *)

MaxInserts == 3
MaxCurves == 2
MaxSubgraphs == 2
MaxPolys == 2
MaxLines == 2
MaxVerts == 3

----------------------------------------------------------------------------
(* Small helpers *)

Reverse(s) == [i \in 1..Len(s) |-> s[Len(s) + 1 - i]]

Max(a, b) == IF a >= b THEN a ELSE b

----------------------------------------------------------------------------
(* geomgraph::Label, restricted to the source the buffer code reads (0)    *)

Locations == {"INTERIOR", "EXTERIOR", "NONE"}

Labels == [on : {"BOUNDARY"}, left : Locations, right : Locations]

\* Label::flip: LEFT and RIGHT are exchanged.
flip(label) == [label EXCEPT !.left = label.right, !.right = label.left]

\* Label::merge: every position that carries no location yet takes the
\* location of the other label.
merge(label, other) ==
    [on    |-> IF label.on = "NONE" THEN other.on ELSE label.on,
     left  |-> IF label.left = "NONE" THEN other.left ELSE label.left,
     right |-> IF label.right = "NONE" THEN other.right ELSE label.right]

\* BufferBuilder::depthDelta
depthDeltaNegated(label) ==
    IF label.left = "INTERIOR" /\ label.right = "EXTERIOR" THEN -1
    ELSE IF label.left = "EXTERIOR" /\ label.right = "INTERIOR" THEN 1
    ELSE 0

depthDelta(label) ==
    LET lLoc == label.left
        rLoc == label.right
    IN  IF lLoc = "INTERIOR" /\ rLoc = "EXTERIOR" THEN 1
        ELSE IF lLoc = "EXTERIOR" /\ rLoc = "INTERIOR" THEN -1
        ELSE 0

----------------------------------------------------------------------------
(* geomgraph::Edge and geomgraph::EdgeList                                 *)

\* Edge::isPointwiseEqual: same coordinates in the same order.
isPointwiseEqual(x, e) == x.pts = e.pts

\* Edge equality: the chains are identical or one is the reverse of the other.
EdgeEquals(x, e) == x.pts = e.pts \/ x.pts = Reverse(e.pts)

\* EdgeList::findEqualEdge: the position of a stored edge equal to e, 0 for
\* the null pointer.
findEqualEdge(edgeList, e) ==
    IF \E k \in 1..Len(edgeList) : EdgeEquals(edgeList[k], e)
    THEN CHOOSE k \in 1..Len(edgeList) :
            /\ EdgeEquals(edgeList[k], e)
            /\ \A j \in 1..(k - 1) : ~EdgeEquals(edgeList[j], e)
    ELSE 0

\* new Edge(cs, label): depthDelta starts at 0.  merged counts the edges
\* merged into this one (history, not program state).
NewEdge(pts, label) ==
    [pts |-> pts, label |-> label, depthDelta |-> 0, merged |-> 0]

\* EdgeList::add
EdgeListAdd(edgeList, e) == Append(edgeList, e)

\* BufferBuilder::insertUniqueEdge
insertUniqueEdgeAlwaysAdds(edgeList, e) ==
    EdgeListAdd(edgeList, [e EXCEPT !.depthDelta = depthDelta(e.label)])

\* insertUniqueEdge merging the incoming label as it comes, never flipped
insertUniqueEdgeNoFlip(edgeList, e) ==
    LET k == findEqualEdge(edgeList, e) IN
    IF k # 0
    THEN [edgeList EXCEPT ![k] =
             [@ EXCEPT !.label = merge(edgeList[k].label, e.label),
                       !.depthDelta = @ + depthDelta(e.label),
                       !.merged = @ + 1]]
    ELSE EdgeListAdd(edgeList, [e EXCEPT !.depthDelta = depthDelta(e.label)])

insertUniqueEdge(edgeList, e) ==
    LET k == findEqualEdge(edgeList, e) IN
    IF k # 0
    THEN LET existingEdge == edgeList[k]
             labelToMerge == IF ~isPointwiseEqual(existingEdge, e)
                             THEN flip(e.label)
                             ELSE e.label
             mergeDelta == depthDelta(labelToMerge)
             existingDelta == existingEdge.depthDelta
             newDelta == existingDelta + mergeDelta
         IN  [edgeList EXCEPT ![k] =
                 [@ EXCEPT !.label = merge(existingEdge.label, labelToMerge),
                           !.depthDelta = newDelta,
                           !.merged = @ + 1]]
    ELSE EdgeListAdd(edgeList, [e EXCEPT !.depthDelta = depthDelta(e.label)])

----------------------------------------------------------------------------
(* BufferBuilder instances                                                 *)

\* BufferBuilder(params): no geometry factory, no intersector, empty edge list.
NewBuilder(params, workingNoder) ==
    [bufParams         |-> params,
     workingNoder      |-> workingNoder,
     geomFact          |-> "null",
     li                |-> "null",
     intersectionAdder |-> "null",
     edgeList          |-> <<>>,
     log               |-> <<>>,
     calls             |-> 0]

DefaultParams == [singleSided |-> FALSE, endCapStyle |-> "CAP_ROUND"]

----------------------------------------------------------------------------
(* Specification SpecEdges: insertUniqueEdge called with arbitrary edges   *)

PtA == <<0, 0>>
PtB == <<1, 0>>
PtC == <<1, 1>>

EdgeChains == {<<PtA, PtB>>, <<PtB, PtA>>, <<PtA, PtB, PtC>>, <<PtC, PtB, PtA>>}

EdgeInputs == {NewEdge(c, l) : c \in EdgeChains, l \in Labels}

NoEdge == NewEdge(<<>>, [on |-> "NONE", left |-> "NONE", right |-> "NONE"])

NoOutcome == [kind |-> "none"]

NoSsb == [pc |-> "none"]

NoLive == [curves |-> 0, noder |-> 0, substrings |-> 0, subgraphs |-> 0]

InitEdges ==
    /\ builders = <<NewBuilder(DefaultParams, "null")>>
    /\ nInserts = 0
    /\ lastEdge = NoEdge
    /\ stack = <<>>
    /\ interrupt = FALSE
    /\ live = NoLive
    /\ outcome = NoOutcome
    /\ rets = {}
    /\ ssb = NoSsb

InsertUniqueEdge ==
    /\ nInserts < MaxInserts
    /\ \E e \in EdgeInputs :
          /\ builders' = [builders EXCEPT ![1].edgeList = insertUniqueEdge(@, e)]
          /\ lastEdge' = e
    /\ nInserts' = nInserts + 1
    /\ UNCHANGED <<stack, interrupt, live, outcome, rets, ssb>>

NextEdges == InsertUniqueEdge

SpecEdges == InitEdges /\ [][NextEdges]_vars

----------------------------------------------------------------------------
(* C9: after any sequence of insertUniqueEdge calls no two stored edges    *)
(* are equal (identical or reversed chains); inserting an edge equal to a  *)
(* stored one leaves the number of stored edges and every stored chain     *)
(* unchanged, inserting an edge equal to none grows the list by exactly    *)
(* one (the new edge, at the end).                                         *)

C9_NoEqualStored ==
    LET el == builders[1].edgeList IN
    \A i, j \in 1..Len(el) : i # j => ~EdgeEquals(el[i], el[j])

C9_InsertStep ==
    LET old == builders[1].edgeList
        new == builders'[1].edgeList
        e   == lastEdge'
    IN  nInserts' = nInserts + 1 =>
          IF \E k \in 1..Len(old) : EdgeEquals(old[k], e)
          THEN /\ Len(new) = Len(old)
               /\ \A i \in 1..Len(old) : new[i].pts = old[i].pts
          ELSE /\ Len(new) = Len(old) + 1
               /\ \A i \in 1..Len(old) : new[i] = old[i]
               /\ new[Len(new)].pts = e.pts

C9_UniqueEdges == []C9_NoEqualStored /\ [][C9_InsertStep]_vars

\* a reversed duplicate has been merged into a stored edge, beside another edge
C9_Witness ==
    LET el == builders[1].edgeList IN
    /\ Len(el) = 2
    /\ nInserts = 3
    /\ el[1].merged = 1
    /\ lastEdge.pts = Reverse(el[1].pts)

----------------------------------------------------------------------------
(* C10: for every edge stored in the edge list, after any sequence of      *)
(* insertUniqueEdge calls (merging duplicates included), depthDelta is +1  *)
(* for the label (LEFT = INTERIOR, RIGHT = EXTERIOR), -1 for (LEFT =       *)
(* EXTERIOR, RIGHT = INTERIOR) and 0 otherwise, hence always in {-1,0,1}.  *)

\* the value the claim gives for a label
C10_LabelDelta(label) ==
    CASE label.left = "INTERIOR" /\ label.right = "EXTERIOR" -> 1
      [] label.left = "EXTERIOR" /\ label.right = "INTERIOR" -> -1
      [] OTHER -> 0

C10_DepthDeltaFromLabel ==
    LET el == builders[1].edgeList IN
    \A i \in 1..Len(el) :
        /\ el[i].depthDelta = C10_LabelDelta(el[i].label)
        /\ el[i].depthDelta \in {-1, 0, 1}

(* C10 as amended: the relation holds for every stored edge into which no  *)
(* equal edge has been merged; each merge adds a value in {-1,0,1}, so an  *)
(* edge with m merges has |depthDelta| <= m + 1.                           *)

C10_DepthDeltaUnmerged ==
    LET el == builders[1].edgeList IN
    \A i \in 1..Len(el) :
        /\ el[i].merged = 0 =>
              /\ el[i].depthDelta = C10_LabelDelta(el[i].label)
              /\ el[i].depthDelta \in {-1, 0, 1}
        /\ el[i].depthDelta <= el[i].merged + 1
        /\ -(el[i].depthDelta) <= el[i].merged + 1

\* an unmerged edge of delta -1 is stored after an edge that absorbed a duplicate
C10_Witness ==
    LET el == builders[1].edgeList IN
    /\ Len(el) = 2
    /\ el[1].merged = 1
    /\ el[1].depthDelta = 2
    /\ el[2].merged = 0
    /\ el[2].depthDelta = -1

----------------------------------------------------------------------------
(* Geometries: what buffer() reads of its input                            *)

Line1 == [type |-> "LineString", coords |-> <<<<0, 0>>, <<20, 0>>>>, comps |-> <<>>]

Line2 == [type |-> "LineString", coords |-> <<<<0, 0>>, <<0, 1>>>>, comps |-> <<>>]

Poly1 == [type |-> "Polygon",
          coords |-> <<<<0, 0>>, <<20, 0>>, <<20, 20>>, <<0, 0>>>>, comps |-> <<>>]

Point1 == [type |-> "Point", coords |-> <<<<0, 0>>>>, comps |-> <<>>]

MultiLine1 == [type |-> "MultiLineString", coords |-> <<>>, comps |-> <<Line1, Line2>>]

Collection1 == [type |-> "GeometryCollection", coords |-> <<>>,
                comps |-> <<Poly1, MultiLine1>>]

CollectionTypes == {"MultiLineString", "GeometryCollection"}

\* Geometry::getNumGeometries
getNumGeometries(g) == IF g.type \in CollectionTypes THEN Len(g.comps) ELSE 1

\* Geometry::getGeometryN, with the C++ index (from 0)
getGeometryN(g, i) == IF g.type \in CollectionTypes THEN g.comps[i + 1] ELSE g

\* Geometry::getDimension
RECURSIVE getDimension(_)
getDimension(g) ==
    CASE g.type = "Point" -> 0
      [] g.type \in {"LineString", "MultiLineString"} -> 1
      [] g.type = "Polygon" -> 2
      [] OTHER ->
           IF \E k \in 1..Len(g.comps) : getDimension(g.comps[k]) = 2 THEN 2
           ELSE IF \E k \in 1..Len(g.comps) : getDimension(g.comps[k]) = 1 THEN 1
           ELSE 0

\* a geometry made by builder b from input g (args: the operands of a union)
Geom(type, b, g, args) ==
    [kind |-> "geometry", type |-> type, by |-> b, of |-> g, args |-> args]

Error(err) == [kind |-> "error", err |-> err]

NoGeom == [kind |-> "null"]

----------------------------------------------------------------------------
(* Helpers of BufferBuilder::buffer                                        *)

\* util::InterruptedException and util::TopologyException are GEOSExceptions
IsGEOSException(err) == err \in {"InterruptedException", "TopologyException"}

\* GEOS_CHECK_FOR_INTERRUPTS(): throws when an interrupt has been requested
InterruptsPending == interrupt

\* BufferBuilder::getNoder: the working noder when there is one, else a new
\* MCIndexNoder on the builder's (lazily created) intersection adder
getNoder(bb) ==
    IF bb.workingNoder # "null"
    THEN [builder |-> bb, noder |-> bb.workingNoder, allocated |-> 0]
    ELSE [builder |-> IF bb.li # "null"
                      THEN bb
                      ELSE [bb EXCEPT !.li = "LineIntersector",
                                      !.intersectionAdder = "IntersectionAdder"],
          noder |-> "MCIndexNoder",
          allocated |-> 1]

\* BufferBuilder::createEmptyResultGeometry: geomFact->createPolygon()
createEmptyByDimension(b, g) ==
    IF getDimension(g) = 1 THEN Geom("EmptyLineString", b, g, <<>>)
    ELSE Geom("EmptyPolygon", b, g, <<>>)

createEmptyResultGeometry(b, g) == Geom("EmptyPolygon", b, g, <<>>)

\* RepeatedPointRemover::removeRepeatedPoints
RECURSIVE removeRepeatedPoints(_)
removeRepeatedPoints(pts) ==
    IF Len(pts) <= 1 THEN pts
    ELSE IF pts[1] = pts[2] THEN removeRepeatedPoints(Tail(pts))
    ELSE <<pts[1]>> \o removeRepeatedPoints(Tail(pts))

\* the loop of computeNodedEdges over the noded substrings: collapsed ones
\* are dropped, the others become edges handed to insertUniqueEdge
RECURSIVE InsertNodedEdges(_, _)
InsertNodedEdges(edgeList, segStrs) ==
    IF segStrs = <<>> THEN edgeList
    ELSE LET segStr == Head(segStrs)
             cs == removeRepeatedPoints(segStr.pts)
         IN  IF Len(cs) < 2
             THEN InsertNodedEdges(edgeList, Tail(segStrs))
             ELSE InsertNodedEdges(insertUniqueEdge(edgeList, NewEdge(cs, segStr.label)),
                                   Tail(segStrs))

\* BufferBuilder subbuilder(bufParams): the builder made for one component
SubBuilderDefaultParams(bb) == NewBuilder(DefaultParams, "null")

SubBuilder(bb) == NewBuilder(bb.bufParams, "null")

\* UnaryUnionOp::Union of the component buffers
UnaryUnion(b, g, geoms) == Geom("Union", b, g, geoms)

LabelIE == [on |-> "BOUNDARY", left |-> "INTERIOR", right |-> "EXTERIOR"]
LabelEI == [on |-> "BOUNDARY", left |-> "EXTERIOR", right |-> "INTERIOR"]

SegStr(pts, label) == [pts |-> pts, label |-> label]

\* what the noder may hand back: one substring; a duplicate, a reversed and a
\* separate substring; nothing but a collapsed substring
NodedSets ==
    { <<SegStr(<<PtA, PtB>>, LabelIE)>>,
      <<SegStr(<<PtA, PtB>>, LabelIE), SegStr(<<PtB, PtA>>, LabelIE),
        SegStr(<<PtA, PtA, PtB>>, LabelEI), SegStr(<<PtB, PtC>>, LabelEI)>>,
      <<SegStr(<<PtA, PtA>>, LabelIE)>> }

BufferInputs == {Line1, Poly1, MultiLine1, Collection1}

NewFrame(b, g) ==
    [b |-> b, g |-> g, pc |-> "enter", i |-> 0, subResults |-> <<>>,
     segStrs |-> <<>>, subgraphList |-> 0, resultGeom |-> NoGeom]

Top == stack[Len(stack)]

SetTop(f) == [stack EXCEPT ![Len(stack)] = f]

At(pc) == stack # <<>> /\ Top.pc = pc

Log(bs, b, ev) == [bs EXCEPT ![b].log = Append(@, ev)]

\* buffer() returns result: to the loop of the calling activation, which
\* stores it and moves to the next component, or to the outside
Returned(result) ==
    /\ rets' = rets \cup {[b |-> Top.b, result |-> result]}
    /\ IF Len(stack) = 1
       THEN /\ stack' = <<>>
            /\ outcome' = result
       ELSE /\ stack' = [SubSeq(stack, 1, Len(stack) - 1) EXCEPT ![Len(stack) - 1] =
                           [@ EXCEPT !.subResults = Append(@, result), !.i = @ + 1]]
            /\ outcome' = outcome

\* buffer() goes on, its activation now f
Continue(f) ==
    /\ stack' = SetTop(f)
    /\ outcome' = outcome
    /\ rets' = rets

\* an exception leaves buffer(); the per-component loop of a calling
\* activation has no handler, so it leaves every activation
Thrown(err) ==
    /\ stack' = <<>>
    /\ outcome' = Error(err)
    /\ rets' = rets

\* the handler of the try block: deletes the subgraphs of subgraphList
CatchAndRethrow(f, lv, err) ==
    IF IsGEOSException(err)
    THEN [lv EXCEPT !.subgraphs = @ - f.subgraphList]
    ELSE lv

----------------------------------------------------------------------------
(* BufferBuilder::buffer, one action per block between two interrupt polls *)
(* or points of failure                                                    *)

\* the outside calls buffer(g, distance) on the first builder
CallBuffer ==
    /\ stack = <<>>
    /\ outcome = NoOutcome
    /\ builders[1].calls = 0
    /\ \E g \in BufferInputs : stack' = <<NewFrame(1, g)>>
    /\ UNCHANGED <<builders, nInserts, lastEdge, interrupt, live, outcome, rets, ssb>>

\* GEOS_interrupt request, at any moment of a running call
RequestInterrupt ==
    /\ stack # <<>>
    /\ ~interrupt
    /\ interrupt' = TRUE
    /\ UNCHANGED <<builders, nInserts, lastEdge, stack, live, outcome, rets, ssb>>

\* lines 374-407: the single-sided test, else the precision model, the
\* factory and the construction of the curve set builder
Enter ==
    /\ At("enter")
    /\ LET f == Top
           b == f.b
       IN  IF builders[b].bufParams.singleSided /\ getNumGeometries(f.g) > 1
           THEN /\ Continue([f EXCEPT !.pc = "loop", !.i = 0])
                /\ builders' = [builders EXCEPT ![b].calls = @ + 1]
           ELSE /\ Continue([f EXCEPT !.pc = "poll1"])
                /\ builders' = [builders EXCEPT ![b].calls = @ + 1,
                                                ![b].geomFact = "inputFactory",
                                                ![b].log = Append(@, "curveSetBuilder")]
    /\ UNCHANGED <<nInserts, lastEdge, interrupt, live, ssb>>

\* lines 377-385: one round of the per-component loop
LoopComponent ==
    /\ At("loop")
    /\ Top.i < getNumGeometries(Top.g)
    /\ builders' = Append(builders, SubBuilder(builders[Top.b]))
    /\ stack' = Append(stack, NewFrame(Len(builders) + 1, getGeometryN(Top.g, Top.i)))
    /\ UNCHANGED <<nInserts, lastEdge, interrupt, live, outcome, rets, ssb>>

\* lines 386-389: the union of the component buffers
LoopUnion ==
    /\ At("loop")
    /\ Top.i >= getNumGeometries(Top.g)
    /\ Returned(UnaryUnion(Top.b, Top.g, Top.subResults))
    /\ UNCHANGED <<builders, nInserts, lastEdge, interrupt, live, ssb>>

\* GEOS_CHECK_FOR_INTERRUPTS at pc from; lvThrow is the heap after the
\* unwinding when it throws, lvPass the heap when it does not
PollStep(from, to, lvThrow, lvPass) ==
    /\ At(from)
    /\ builders' = Log(builders, Top.b, IF interrupt THEN "poll:set" ELSE "poll:clear")
    /\ IF InterruptsPending
       THEN /\ Thrown("InterruptedException")
            /\ live' = lvThrow
       ELSE /\ Continue([Top EXCEPT !.pc = to])
            /\ live' = lvPass
    /\ UNCHANGED <<nInserts, lastEdge, interrupt, ssb>>

\* the same place without its poll
NoPollStep(from, to, lvThrow, lvPass) ==
    /\ At(from)
    /\ Continue([Top EXCEPT !.pc = to])
    /\ live' = lvPass
    /\ UNCHANGED <<builders, nInserts, lastEdge, interrupt, ssb>>

\* line 409
Poll1 == PollStep("poll1", "getCurves", [live EXCEPT !.curves = 0], live)

\* lines 411-420: the curves; none is the short circuit
GetCurves ==
    /\ At("getCurves")
    /\ \E n \in 0..MaxCurves :
          IF n = 0
          THEN /\ builders' = Log(Log(builders, Top.b, "getCurves"), Top.b, "noCurves")
               /\ Returned(createEmptyResultGeometry(Top.b, Top.g))
               /\ live' = live
          ELSE /\ builders' = Log(builders, Top.b, "getCurves")
               /\ Continue([Top EXCEPT !.pc = "computeNodes"])
               /\ live' = [live EXCEPT !.curves = n]
    /\ UNCHANGED <<nInserts, lastEdge, interrupt, ssb>>

\* computeNodedEdges, lines 618-632: the noder and the noding, which may throw
ComputeNodes ==
    /\ At("computeNodes")
    /\ LET b == Top.b
           gn == getNoder(builders[b])
       IN  /\ builders' = Log([builders EXCEPT ![b] = gn.builder], b, "computeNodes")
           /\ \/ /\ Thrown("TopologyException")
                 /\ live' = [live EXCEPT !.noder = @ + gn.allocated, !.curves = 0]
              \/ \E segs \in NodedSets :
                    /\ Continue([Top EXCEPT !.pc = "insertEdges", !.segStrs = segs])
                    /\ live' = [live EXCEPT !.noder = @ + gn.allocated,
                                            !.substrings = Len(segs)]
    /\ UNCHANGED <<nInserts, lastEdge, interrupt, ssb>>

\* computeNodedEdges, lines 643-669: the edges, then the substrings and the
\* noder (unless it is the working noder) are deleted
InsertEdges ==
    /\ At("insertEdges")
    /\ LET b == Top.b IN
       /\ builders' = Log([builders EXCEPT ![b].edgeList = InsertNodedEdges(@, Top.segStrs)],
                          b, "insertUniqueEdge")
       /\ live' = [live EXCEPT !.substrings = 0,
                               !.noder = IF builders[b].workingNoder = "null"
                                         THEN @ - 1 ELSE @]
    /\ Continue([Top EXCEPT !.pc = "poll2", !.segStrs = <<>>])
    /\ UNCHANGED <<nInserts, lastEdge, interrupt, ssb>>

\* line 428, and the end of the curve set builder's scope at line 430
Poll2 == PollStep("poll2", "addEdges", [live EXCEPT !.curves = 0],
                  [live EXCEPT !.curves = 0])

\* lines 441-442: the planar graph
AddEdges ==
    /\ At("addEdges")
    /\ builders' = Log(builders, Top.b, "addEdges")
    /\ \/ /\ Thrown("TopologyException")
          /\ live' = CatchAndRethrow(Top, live, "TopologyException")
       \/ /\ Continue([Top EXCEPT !.pc = "poll3"])
          /\ live' = live
    /\ UNCHANGED <<nInserts, lastEdge, interrupt, ssb>>

\* line 444
Poll3NoPoll == NoPollStep("poll3", "createSubgraphs", live, live)

Poll3 == PollStep("poll3", "createSubgraphs",
                  CatchAndRethrow(Top, live, "InterruptedException"), live)

\* createSubgraphs, lines 727-744: n subgraphs (none exactly when there is no
\* edge); when create throws for the k+1st, it is allocated and not in the list
CreateSubgraphs ==
    /\ At("createSubgraphs")
    /\ builders' = Log(builders, Top.b, "createSubgraphs")
    /\ LET lo == IF builders[Top.b].edgeList = <<>> THEN 0 ELSE 1
           hi == IF builders[Top.b].edgeList = <<>> THEN 0 ELSE MaxSubgraphs
       IN  \/ \E n \in lo..hi :
                 /\ Continue([Top EXCEPT !.pc = "poll4", !.subgraphList = n])
                 /\ live' = [live EXCEPT !.subgraphs = n]
           \/ \E k \in 0..(hi - 1) :
                 /\ Thrown("TopologyException")
                 /\ live' = CatchAndRethrow([Top EXCEPT !.subgraphList = k],
                                            [live EXCEPT !.subgraphs = k + 1],
                                            "TopologyException")
    /\ UNCHANGED <<nInserts, lastEdge, interrupt, ssb>>

\* line 457
Poll4 == PollStep("poll4", "buildSubgraphs",
                  CatchAndRethrow(Top, live, "InterruptedException"), live)

\* lines 459-489: depths and polygons (none without subgraphs), the
\* subgraphs deleted, the result
BuildSubgraphs ==
    /\ At("buildSubgraphs")
    /\ \/ /\ builders' = Log(builders, Top.b, "buildSubgraphs")
          /\ Thrown("TopologyException")
          /\ live' = CatchAndRethrow(Top, live, "TopologyException")
       \/ \E m \in 0..(IF Top.subgraphList = 0 THEN 0 ELSE MaxPolys) :
             /\ live' = [live EXCEPT !.subgraphs = @ - Top.subgraphList]
             /\ IF m = 0
                THEN /\ builders' = Log(Log(builders, Top.b, "buildSubgraphs"),
                                        Top.b, "noPolygons")
                     /\ Returned(createEmptyResultGeometry(Top.b, Top.g))
                ELSE /\ builders' = Log(builders, Top.b, "buildSubgraphs")
                     /\ IF builders[Top.b].bufParams.singleSided
                        THEN Continue([Top EXCEPT !.pc = "singleSided",
                                          !.subgraphList = 0,
                                          !.resultGeom = Geom("Polygonal", Top.b, Top.g, <<>>)])
                        ELSE Returned(Geom("Polygonal", Top.b, Top.g, <<>>))
    /\ UNCHANGED <<nInserts, lastEdge, interrupt, ssb>>

\* lines 504-570: of the polygons formed by the input's linework and the
\* buffer's boundary, the biggest, when there are several and one has area
SingleSidedCleanup ==
    /\ At("singleSided")
    /\ builders' = Log(builders, Top.b, "singleSidedCleanup")
    /\ \E polys \in 0..MaxPolys, hasArea \in BOOLEAN :
          IF polys > 1 /\ hasArea
          THEN Returned(Geom("BiggestPolygon", Top.b, Top.g, <<>>))
          ELSE Returned(Top.resultGeom)
    /\ UNCHANGED <<nInserts, lastEdge, interrupt, live, ssb>>

InitBuffer ==
    /\ \E ss \in BOOLEAN, wn \in {"null", "custom"} :
          builders = <<NewBuilder([DefaultParams EXCEPT !.singleSided = ss], wn)>>
    /\ nInserts = 0
    /\ lastEdge = NoEdge
    /\ stack = <<>>
    /\ interrupt = FALSE
    /\ live = NoLive
    /\ outcome = NoOutcome
    /\ rets = {}
    /\ ssb = NoSsb

NextBuffer ==
    \/ CallBuffer
    \/ RequestInterrupt
    \/ Enter
    \/ LoopComponent
    \/ LoopUnion
    \/ Poll1
    \/ GetCurves
    \/ ComputeNodes
    \/ InsertEdges
    \/ Poll2
    \/ AddEdges
    \/ Poll3
    \/ CreateSubgraphs
    \/ Poll4
    \/ BuildSubgraphs
    \/ SingleSidedCleanup

SpecBuffer == InitBuffer /\ [][NextBuffer]_vars

----------------------------------------------------------------------------
(* Reading a builder's log                                                 *)

IsPoll(ev) == ev \in {"poll:set", "poll:clear"}

\* the block of buffer() an event belongs to; two blocks are separated by one
\* GEOS_CHECK_FOR_INTERRUPTS
BlockOf(ev) ==
    CASE ev = "curveSetBuilder" -> 1
      [] ev \in {"getCurves", "noCurves", "computeNodes", "insertUniqueEdge"} -> 2
      [] ev = "addEdges" -> 3
      [] ev = "createSubgraphs" -> 4
      [] ev \in {"buildSubgraphs", "noPolygons", "singleSidedCleanup"} -> 5
      [] OTHER -> 0

Has(log, ev) == \E k \in 1..Len(log) : log[k] = ev

BuilderIds == 1..Len(builders)

----------------------------------------------------------------------------
(* C3: during buffer() the interrupt is polled between every pair of       *)
(* consecutive major stages (after the curve-set build, before noding,     *)
(* before edge labelling, before subgraph build, before assembly); when    *)
(* it is set at a poll, buffer() aborts with a cancellation error, runs no *)
(* later stage, returns no geometry and has released its curves and        *)
(* subgraphs.                                                              *)

\* when a poll finds the interrupt set, the call ends there
C3_AbortAtPoll ==
    \A b \in BuilderIds :
        LET log == builders[b].log IN
        \A k \in 1..Len(log) :
            log[k] = "poll:set" =>
               /\ k = Len(log)
               /\ stack = <<>>
               /\ outcome = Error("InterruptedException")
               /\ \A r \in rets : r.b # b
               /\ live.curves = 0
               /\ live.subgraphs = 0

\* the claim's places: each of noding (from fetching the curves on), edge
\* labelling (insertUniqueEdge merges the labels), subgraph build and
\* assembly starts right after a poll
C3_PollBeforeEachStage ==
    \A b \in BuilderIds :
        LET log == builders[b].log IN
        \A k \in 1..Len(log) :
            log[k] \in {"getCurves", "insertUniqueEdge", "createSubgraphs", "buildSubgraphs"}
               => k > 1 /\ IsPoll(log[k - 1])

C3_Original == C3_AbortAtPoll /\ C3_PollBeforeEachStage

(* C3 as amended: buffer() polls at four places: after the construction of *)
(* the curve set builder, after computeNodedEdges (noding and edge         *)
(* insertion together), after the planar graph is built and after          *)
(* createSubgraphs; nothing is polled between noding and the insertion     *)
(* (label merging) of the edges.  The rest of the claim stands.            *)

C3_PollsBetweenBlocks ==
    \A b \in BuilderIds :
        LET log == builders[b].log IN
        \A k \in 1..Len(log) :
            /\ (k < Len(log) /\ ~IsPoll(log[k]) /\ ~IsPoll(log[k + 1]))
                  => BlockOf(log[k + 1]) = BlockOf(log[k])
            /\ IsPoll(log[k]) =>
                  /\ k > 1
                  /\ ~IsPoll(log[k - 1])
                  /\ k < Len(log) => BlockOf(log[k + 1]) = BlockOf(log[k - 1]) + 1
            /\ (k = 1) => log[k] = "curveSetBuilder"

C3_InterruptPolls == C3_AbortAtPoll /\ C3_PollsBetweenBlocks

\* the poll before buildSubgraphs found the interrupt set, with subgraphs made
C3_Witness ==
    /\ outcome = Error("InterruptedException")
    /\ builders[1].log = <<"curveSetBuilder", "poll:clear", "getCurves", "computeNodes",
                           "insertUniqueEdge", "poll:clear", "addEdges", "poll:clear",
                           "createSubgraphs", "poll:set">>
    /\ Len(builders[1].edgeList) = 2

----------------------------------------------------------------------------
(* C4: when the curve set builder yields no curves, buffer() returns an    *)
(* empty result without noding, edge insertion, graph construction,        *)
(* subgraph build or polygon assembly; the empty result is an empty        *)
(* polygon for an areal input and an empty line for a linear input; the    *)
(* same empty result is returned when assembly yields no polygons.         *)

EmptyPath(b) == Has(builders[b].log, "noCurves") \/ Has(builders[b].log, "noPolygons")

C4_NoLaterStage ==
    \A r \in rets :
        Has(builders[r.b].log, "noCurves") =>
            builders[r.b].log = <<"curveSetBuilder", "poll:clear", "getCurves", "noCurves">>

C4_Original ==
    /\ C4_NoLaterStage
    /\ \A r \in rets :
          EmptyPath(r.b) =>
             r.result.type = IF getDimension(r.result.of) = 1 THEN "EmptyLineString"
                             ELSE "EmptyPolygon"

(* C4 as amended: the empty result is an empty polygon whatever the        *)
(* dimension of the input.                                                 *)

C4_EmptyResult ==
    /\ C4_NoLaterStage
    /\ \A r \in rets :
          EmptyPath(r.b) =>
             r.result = [kind |-> "geometry", type |-> "EmptyPolygon", by |-> r.b,
                         of |-> r.result.of, args |-> <<>>]

\* no curves for a line and no polygons for a polygon, both returned
C4_Witness ==
    /\ \E r \in rets : Has(builders[r.b].log, "noCurves") /\ r.result.of = Line1
    /\ \E r \in rets : Has(builders[r.b].log, "noPolygons") /\ r.result.of = Poly1

----------------------------------------------------------------------------
(* C5: with singleSided on and an input of n > 1 components, buffer()      *)
(* buffers each component exactly once, in component order, each with a    *)
(* freshly constructed builder carrying the same parameters, and returns   *)
(* the unary union of exactly those n results; the calling builder runs    *)
(* none of its own pipeline stages and its edge list stays empty, and no   *)
(* builder has buffer() run more than once.                                *)

IsSplit(b, g) == builders[b].bufParams.singleSided /\ getNumGeometries(g) > 1

\* results i = 1..Len(results) are those of the first components, each by a
\* builder of its own, made later than the caller and in component order
ComponentResults(b, g, results) ==
    /\ Len(results) <= getNumGeometries(g)
    /\ \A k \in 1..Len(results) :
          /\ results[k].kind = "geometry"
          /\ results[k].of = getGeometryN(g, k - 1)
          /\ results[k].by \in BuilderIds
          /\ results[k].by > b
          /\ builders[results[k].by].bufParams = builders[b].bufParams
          /\ builders[results[k].by].calls = 1
          /\ [b |-> results[k].by, result |-> results[k]] \in rets
          /\ \A j \in 1..(k - 1) : results[j].by < results[k].by

C5_PerComponent ==
    /\ \A b \in BuilderIds : builders[b].calls <= 1
    /\ \A r1, r2 \in rets : r1.b = r2.b => r1 = r2
    /\ \A r \in rets :
          IsSplit(r.b, r.result.of) =>
             /\ r.result.type = "Union"
             /\ r.result.by = r.b
             /\ Len(r.result.args) = getNumGeometries(r.result.of)
             /\ ComponentResults(r.b, r.result.of, r.result.args)
             /\ builders[r.b].log = <<>>
             /\ builders[r.b].edgeList = <<>>
    /\ \A k \in 1..Len(stack) :
          LET f == stack[k] IN
          /\ IsSplit(f.b, f.g) /\ f.pc # "enter" =>
                /\ f.pc = "loop"
                /\ Len(f.subResults) = f.i
                /\ ComponentResults(f.b, f.g, f.subResults)
                /\ builders[f.b].log = <<>>
                /\ builders[f.b].edgeList = <<>>
          /\ f.pc = "enter" =>
                builders[f.b] = NewBuilder(builders[f.b].bufParams, builders[f.b].workingNoder)
          /\ k > 1 =>
                /\ builders[f.b].bufParams = builders[stack[k - 1].b].bufParams
                /\ f.g = getGeometryN(stack[k - 1].g, stack[k - 1].i)

\* the union for the nested collection: its second component split again
C5_Witness ==
    /\ outcome.kind = "geometry"
    /\ outcome.type = "Union"
    /\ outcome.of = Collection1
    /\ outcome.args[1].type = "BiggestPolygon"
    /\ outcome.args[2].type = "Union"
    /\ outcome.args[2].args[2].type = "EmptyPolygon"
    /\ Len(builders) = 5
    /\ Len(builders[5].edgeList) = 2

----------------------------------------------------------------------------
(* C7: on every exit path of buffer() (normal return, early empty return,  *)
(* errors raised by noding, graph construction, subgraph creation, depth   *)
(* computation or polygon assembly) the error, if any, propagates with no  *)
(* geometry returned, and all temporary state of the call (the noder       *)
(* allocated by getNoder when no working noder is set, the noded           *)
(* substrings, every BufferSubgraph of the subgraph list) is released.     *)

C7_ReleasedOnExit ==
    outcome # NoOutcome =>
        /\ stack = <<>>
        /\ live.noder = 0
        /\ live.substrings = 0
        /\ live.subgraphs = 0

----------------------------------------------------------------------------
(* Arithmetic of the endpoint trimming, lines 270-324.  With integer       *)
(* coordinates, distance and line length, x < y between the doubles of the *)
(* code is decided on 100 x and 100 y through their squares.               *)

Dist2(p, q) == (p[1] - q[1]) * (p[1] - q[1]) + (p[2] - q[2]) * (p[2] - q[2])

AbsDiff(a, b) == IF a >= b THEN a - b ELSE b - a

\* LineString::getLength of the input line; its segments are parallel to an
\* axis, so each length is the difference of one coordinate
RECURSIVE getLength(_)
getLength(coords) ==
    IF Len(coords) < 2 THEN 0
    ELSE AbsDiff(coords[1][1], coords[2][1]) + AbsDiff(coords[1][2], coords[2][2])
         + getLength(Tail(coords))

\* 100 * ptDistAllowance, line 270
ptDistAllowance(distance, length) == Max(100 * distance - 10 * length, 98 * distance)

\* 100 * segLengthAllowance, line 274
segLengthAllowance(distance) == 102 * distance

\* p.distance(q) < allowance, for 100 * allowance = a100
DistanceBelow(p, q, a100) == a100 > 0 /\ 10000 * Dist2(p, q) < a100 * a100

\* p.distance(q) > allowance, for 100 * allowance = a100
DistanceAbove(p, q, a100) == a100 < 0 \/ 10000 * Dist2(p, q) > a100 * a100

\* coords->getAt(i), i from 0
getAt(coords, i) == coords[i + 1]

----------------------------------------------------------------------------
(* BufferBuilder::bufferLineSingleSided                                    *)

Clone(g) == [kind |-> "geometry", type |-> "Clone", of |-> g]

\* lines 136-155: the type test, the zero distance test, the factory
SsbEntryZeroFirst(bb, g, distance) ==
    IF distance = 0
    THEN [builder |-> bb, pc |-> "done", result |-> Clone(g)]
    ELSE IF g.type # "LineString"
    THEN [builder |-> bb, pc |-> "done", result |-> Error("IllegalArgumentException")]
    ELSE [builder |-> [bb EXCEPT !.geomFact = "inputFactory"], pc |-> "buffer",
          result |-> NoGeom]

SsbEntryFactoryFirst(bb, g, distance) ==
    IF g.type # "LineString"
    THEN [builder |-> bb, pc |-> "done", result |-> Error("IllegalArgumentException")]
    ELSE IF distance = 0
    THEN [builder |-> [bb EXCEPT !.geomFact = "inputFactory"], pc |-> "done",
          result |-> Clone(g)]
    ELSE [builder |-> [bb EXCEPT !.geomFact = "inputFactory"], pc |-> "buffer",
          result |-> NoGeom]

SsbEntry(bb, g, distance) ==
    IF g.type # "LineString"
    THEN [builder |-> bb, pc |-> "done", result |-> Error("IllegalArgumentException")]
    ELSE IF distance = 0
    THEN [builder |-> bb, pc |-> "done", result |-> Clone(g)]
    ELSE [builder |-> [bb EXCEPT !.geomFact = "inputFactory"], pc |-> "buffer",
          result |-> NoGeom]

\* lines 158-160: the parameters of the two-sided buffer
ModParams(bufParams) ==
    [bufParams EXCEPT !.endCapStyle = "CAP_FLAT", !.singleSided = FALSE]

\* lines 354-363: the geometry returned for the lines that survived
SsbResultAlwaysMulti(geoms) ==
    IF Len(geoms) >= 1
    THEN [kind |-> "geometry", type |-> "MultiLineString", lines |-> geoms]
    ELSE [kind |-> "geometry", type |-> "LineString", lines |-> <<>>]

SsbResult(geoms) ==
    IF Len(geoms) > 1
    THEN [kind |-> "geometry", type |-> "MultiLineString", lines |-> geoms]
    ELSE IF Len(geoms) = 1
    THEN [kind |-> "geometry", type |-> "LineString", lines |-> <<geoms[1]>>]
    ELSE [kind |-> "geometry", type |-> "LineString", lines |-> <<>>]

SsbInputs == {Line1, Line2, Point1, Poly1, MultiLine1}

SsbDistances == {-10, 0, 10}

\* merged lines for Line1 at distance 10: untouched by the trimming, trimmed
\* at both ends, trimmed down to one vertex
PolyKeep == <<<<0, 10>>, <<10, 10>>, <<20, 10>>>>
PolyTrim == <<<<0, 9>>, <<0, 10>>, <<20, 10>>, <<20, 9>>>>
PolyDrop == <<<<0, 9>>, <<0, 10>>>>

MergedLineChoices == {PolyKeep, PolyTrim, PolyDrop}

SeqsUpTo(S, n) == UNION {[1..k -> S] : k \in 0..n}

\* the outside calls bufferLineSingleSided(g, distance, leftSide)
CallSingleSided ==
    /\ ssb.pc = "none"
    /\ \E g \in SsbInputs, distance \in SsbDistances, leftSide \in BOOLEAN :
          LET e == SsbEntry(builders[1], g, distance) IN
          /\ builders' = [builders EXCEPT ![1] = e.builder]
          /\ ssb' = [pc |-> e.pc, g |-> g, distance |-> distance, leftSide |-> leftSide,
                     log |-> <<>>, bufEmpty |-> FALSE, merged |-> <<>>,
                     mergedLines |-> <<>>, mergedLinesGeom |-> <<>>,
                     coords |-> <<>>, front |-> 0, back |-> 0, sz |-> 0,
                     removed |-> <<>>, reads |-> {}, result |-> e.result]
    /\ UNCHANGED <<nInserts, lastEdge, stack, interrupt, live, outcome, rets>>

\* lines 158-171: the two-sided flat-cap buffer by a builder of its own
\* (tmpBB, here the second builder), and its boundary; buffer() may throw
TwoSidedBuffer ==
    /\ ssb.pc = "buffer"
    /\ builders' = Append(builders,
                          [NewBuilder(ModParams(builders[1].bufParams), "null")
                             EXCEPT !.calls = 1])
    /\ \/ ssb' = [ssb EXCEPT !.pc = "done", !.log = Append(@, "buffer"),
                             !.result = Error("TopologyException")]
       \/ \E empty \in BOOLEAN :
             ssb' = [ssb EXCEPT !.pc = "offsetCurve", !.log = Append(@, "buffer"),
                                !.bufEmpty = empty]
    /\ UNCHANGED <<nInserts, lastEdge, stack, interrupt, live, outcome, rets>>

\* lines 179-198: the raw offset curve on one side, as segment strings
OffsetCurve ==
    /\ ssb.pc = "offsetCurve"
    /\ \E n \in 0..MaxCurves : live' = [live EXCEPT !.curves = n]
    /\ ssb' = [ssb EXCEPT !.pc = "node", !.log = Append(@, "offsetCurve")]
    /\ UNCHANGED <<builders, nInserts, lastEdge, stack, interrupt, outcome, rets>>

\* lines 202-226: the noder, the noding, the noded substrings turned into
\* lines, the segment strings deleted; computeNodes may throw
NodeCurve ==
    /\ ssb.pc = "node"
    /\ LET gn == getNoder(builders[1]) IN
       /\ builders' = [builders EXCEPT ![1] = gn.builder]
       /\ \/ /\ ssb' = [ssb EXCEPT !.pc = "done", !.log = Append(@, "node"),
                                   !.result = Error("TopologyException")]
             /\ live' = [live EXCEPT !.noder = @ + gn.allocated]
          \/ /\ ssb' = [ssb EXCEPT !.pc = "overlay", !.log = Append(@, "node")]
             /\ live' = [live EXCEPT !.noder = @ + gn.allocated, !.curves = 0]
    /\ UNCHANGED <<nInserts, lastEdge, stack, interrupt, outcome, rets>>

\* lines 239-254: the intersection with the buffer's boundary (empty when the
\* buffer is) and the line merge
OverlayAndMerge ==
    /\ ssb.pc = "overlay"
    /\ \E ml \in SeqsUpTo(MergedLineChoices, IF ssb.bufEmpty THEN 0 ELSE MaxLines) :
          ssb' = [ssb EXCEPT !.pc = "trimNext", !.log = @ \o <<"overlay", "lineMerge">>,
                             !.merged = ml, !.mergedLines = ml]
    /\ UNCHANGED <<builders, nInserts, lastEdge, stack, interrupt, live, outcome, rets>>

\* lines 255-278: the last of the merged lines, front, back and sz
TrimBegin ==
    /\ ssb.pc = "trimNext"
    /\ ssb.mergedLines # <<>>
    /\ LET coords == ssb.mergedLines[Len(ssb.mergedLines)] IN
       ssb' = [ssb EXCEPT !.pc = "frontStart", !.coords = coords, !.front = 0,
                          !.back = Len(coords) - 1,
                          !.sz = (Len(coords) - 1) - 0 + 1,
                          !.removed = <<>>,
                          !.reads = {}]
    /\ UNCHANGED <<builders, nInserts, lastEdge, stack, interrupt, live, outcome, rets>>

StartPoint == ssb.g.coords[1]

EndPoint == ssb.g.coords[Len(ssb.g.coords)]

\* history: the positions of coords read by getAt, each with the front and
\* back of the moment
Reads(positions) ==
    ssb.reads \cup {[at |-> a, front |-> ssb.front, back |-> ssb.back] : a \in positions}

\* what one test of a front loop reads: coords[front] once sz > 1 holds,
\* coords[front + 1] once the front vertex is within the allowance of ref
FrontReads(ref) ==
    IF ssb.sz > 1
    THEN IF DistanceBelow(getAt(ssb.coords, ssb.front), ref,
                          ptDistAllowance(ssb.distance, getLength(ssb.g.coords)))
         THEN {ssb.front, ssb.front + 1}
         ELSE {ssb.front}
    ELSE {}

\* what one test of a back loop reads
BackReads(ref) ==
    IF ssb.sz > 1
    THEN IF DistanceBelow(getAt(ssb.coords, ssb.back), ref,
                          ptDistAllowance(ssb.distance, getLength(ssb.g.coords)))
         THEN {ssb.back, ssb.back - 1}
         ELSE {ssb.back}
    ELSE {}

\* one test of a front loop (lines 283-297, 298-305) against point ref: the
\* loop ends (to pc next) or the front vertex is removed
FrontLoop(pc, next, ref) ==
    /\ ssb.pc = pc
    /\ IF ssb.sz > 1
          /\ DistanceBelow(getAt(ssb.coords, ssb.front), ref,
                           ptDistAllowance(ssb.distance, getLength(ssb.g.coords)))
          /\ ~DistanceAbove(getAt(ssb.coords, ssb.front), getAt(ssb.coords, ssb.front + 1),
                            segLengthAllowance(ssb.distance))
       THEN ssb' = [ssb EXCEPT !.front = @ + 1, !.sz = @ - 1,
                               !.removed = Append(@, [at |-> ssb.front, loop |-> pc]),
                               !.reads = Reads(FrontReads(ref))]
       ELSE ssb' = [ssb EXCEPT !.pc = next, !.reads = Reads(FrontReads(ref))]
    /\ UNCHANGED <<builders, nInserts, lastEdge, stack, interrupt, live, outcome, rets>>

\* one test of a back loop (lines 307-315, 316-324)
BackLoop(pc, next, ref) ==
    /\ ssb.pc = pc
    /\ IF ssb.sz > 1
          /\ DistanceBelow(getAt(ssb.coords, ssb.back), ref,
                           ptDistAllowance(ssb.distance, getLength(ssb.g.coords)))
          /\ ~DistanceAbove(getAt(ssb.coords, ssb.back), getAt(ssb.coords, ssb.back - 1),
                            segLengthAllowance(ssb.distance))
       THEN ssb' = [ssb EXCEPT !.back = @ - 1, !.sz = @ - 1,
                               !.removed = Append(@, [at |-> ssb.back, loop |-> pc]),
                               !.reads = Reads(BackReads(ref))]
       ELSE ssb' = [ssb EXCEPT !.pc = next, !.reads = Reads(BackReads(ref))]
    /\ UNCHANGED <<builders, nInserts, lastEdge, stack, interrupt, live, outcome, rets>>

FrontStartEndPoint == FrontLoop("frontStart", "frontEnd", EndPoint)

FrontStart == FrontLoop("frontStart", "frontEnd", StartPoint)

FrontEnd == FrontLoop("frontEnd", "backStart", EndPoint)

BackStart == BackLoop("backStart", "backEnd", StartPoint)

BackEnd == BackLoop("backEnd", "emit", EndPoint)

\* Emit without the test of line 326
EmitAlways ==
    /\ ssb.pc = "emit"
    /\ ssb' = [ssb EXCEPT
                  !.pc = "trimNext",
                  !.mergedLinesGeom =
                      Append(@, [i \in 1..ssb.sz |-> getAt(ssb.coords, (i - 1) + ssb.front)]),
                  !.mergedLines = SubSeq(@, 1, Len(@) - 1)]
    /\ UNCHANGED <<builders, nInserts, lastEdge, stack, interrupt, live, outcome, rets>>

\* lines 326-343: the vertices front..back become a line when more than one
\* is left; the merged line is popped
Emit ==
    /\ ssb.pc = "emit"
    /\ ssb' = [ssb EXCEPT
                  !.pc = "trimNext",
                  !.mergedLinesGeom =
                      IF ssb.sz > 1
                      THEN Append(@, [i \in 1..ssb.sz |-> getAt(ssb.coords, (i - 1) + ssb.front)])
                      ELSE @,
                  !.reads =
                      IF ssb.sz > 1 /\ ssb.sz < Len(ssb.coords)
                      THEN Reads({i + ssb.front : i \in 0..(ssb.sz - 1)})
                      ELSE @,
                  !.mergedLines = SubSeq(@, 1, Len(@) - 1)]
    /\ UNCHANGED <<builders, nInserts, lastEdge, stack, interrupt, live, outcome, rets>>

\* lines 346-363: the noder deleted unless it is the working noder, the result
Finish ==
    /\ ssb.pc = "trimNext"
    /\ ssb.mergedLines = <<>>
    /\ live' = [live EXCEPT !.noder = IF builders[1].workingNoder = "null"
                                      THEN @ - 1 ELSE @]
    /\ ssb' = [ssb EXCEPT !.pc = "done", !.result = SsbResult(ssb.mergedLinesGeom)]
    /\ UNCHANGED <<builders, nInserts, lastEdge, stack, interrupt, outcome, rets>>

InitSSB ==
    /\ \E wn \in {"null", "custom"} : builders = <<NewBuilder(DefaultParams, wn)>>
    /\ nInserts = 0
    /\ lastEdge = NoEdge
    /\ stack = <<>>
    /\ interrupt = FALSE
    /\ live = NoLive
    /\ outcome = NoOutcome
    /\ rets = {}
    /\ ssb = NoSsb

NextSSB ==
    \/ CallSingleSided
    \/ TwoSidedBuffer
    \/ OffsetCurve
    \/ NodeCurve
    \/ OverlayAndMerge
    \/ TrimBegin
    \/ FrontStart
    \/ FrontEnd
    \/ BackStart
    \/ BackEnd
    \/ Emit
    \/ Finish

SpecSSB == InitSSB /\ [][NextSSB]_vars

----------------------------------------------------------------------------
(* Specification SpecTrim: the trimming of one merged line, over every     *)
(* line of up to MaxVerts vertices drawn from TrimPoints; it starts where  *)
(* bufferLineSingleSided has merged the lines (line 254)                   *)

TrimPoints == {<<0, 9>>, <<0, 10>>, <<10, 10>>, <<20, 10>>, <<20, 9>>, <<9, 1>>, <<11, 1>>}

TrimInputs == {Line1, Line2}

TrimDistances == {-10, 10}

TrimLines == UNION {[1..k -> TrimPoints] : k \in 2..MaxVerts}

InitTrim ==
    /\ builders = <<getNoder([NewBuilder(DefaultParams, "null")
                               EXCEPT !.geomFact = "inputFactory"]).builder,
                    [NewBuilder(ModParams(DefaultParams), "null") EXCEPT !.calls = 1]>>
    /\ nInserts = 0
    /\ lastEdge = NoEdge
    /\ stack = <<>>
    /\ interrupt = FALSE
    /\ live = [NoLive EXCEPT !.noder = 1]
    /\ outcome = NoOutcome
    /\ rets = {}
    /\ \E g \in TrimInputs, distance \in TrimDistances, line \in TrimLines :
          ssb = [pc |-> "trimNext", g |-> g, distance |-> distance, leftSide |-> TRUE,
                 log |-> <<"buffer", "offsetCurve", "node", "overlay", "lineMerge">>,
                 bufEmpty |-> FALSE, merged |-> <<line>>,
                 mergedLines |-> <<line>>, mergedLinesGeom |-> <<>>,
                 coords |-> <<>>, front |-> 0, back |-> 0, sz |-> 0,
                 removed |-> <<>>, reads |-> {}, result |-> NoGeom]

NextTrim ==
    \/ TrimBegin
    \/ FrontStart
    \/ FrontEnd
    \/ BackStart
    \/ BackEnd
    \/ Emit
    \/ Finish

SpecTrim == InitTrim /\ [][NextTrim]_vars

----------------------------------------------------------------------------
(* C1: bufferLineSingleSided on a geometry that is no LineString ends with *)
(* an invalid-argument error and no geometry, for every distance (0        *)
(* included: the type is tested first) and both values of leftSide; no     *)
(* stage of the pipeline runs before the error.                            *)

C1_NonLineRejected ==
    (ssb.pc # "none" /\ ssb.g.type # "LineString") =>
        /\ ssb.pc = "done"
        /\ ssb.result = Error("IllegalArgumentException")
        /\ ssb.log = <<>>
        /\ builders = <<NewBuilder(DefaultParams, builders[1].workingNoder)>>
        /\ live = NoLive

\* a polygon at distance 0 has been rejected
C1_Witness ==
    /\ ssb.pc = "done"
    /\ ssb.g = Poly1
    /\ ssb.distance = 0
    /\ ~ssb.leftSide
    /\ ssb.result.kind = "error"

----------------------------------------------------------------------------
(* C2: bufferLineSingleSided on a LineString at distance 0 returns a clone *)
(* of the input, for both values of leftSide, without running the          *)
(* two-sided buffer, the offset curve builder, the noder, the overlay or   *)
(* the line merger and without changing the builder (geomFact, li,         *)
(* intersectionAdder, edge list).                                          *)

C2_ZeroDistanceClone ==
    (ssb.pc # "none" /\ ssb.g.type = "LineString" /\ ssb.distance = 0) =>
        /\ ssb.pc = "done"
        /\ ssb.result = [kind |-> "geometry", type |-> "Clone", of |-> ssb.g]
        /\ ssb.log = <<>>
        /\ builders[1].geomFact = "null"
        /\ builders[1].li = "null"
        /\ builders[1].intersectionAdder = "null"
        /\ builders[1].edgeList = <<>>
        /\ Len(builders) = 1
        /\ live = NoLive

C2_Witness ==
    /\ ssb.pc = "done"
    /\ ssb.g = Line2
    /\ ssb.distance = 0
    /\ ssb.leftSide
    /\ ssb.result.kind = "geometry"

----------------------------------------------------------------------------
(* C6: for a LineString and a distance other than 0, bufferLineSingleSided *)
(* returns a single linestring when exactly one polyline survives the      *)
(* trimming, a multilinestring of all survivors when several do, an empty  *)
(* linestring when none does (also when the intersection with the          *)
(* boundary of the flat-cap buffer is empty); never a multilinestring of   *)
(* fewer than two members.                                                 *)

\* the merged lines of which more than one vertex is left, last one first
RECURSIVE Survivors(_, _)
Survivors(merged, geoms) ==
    IF merged = <<>> THEN geoms = <<>>
    ELSE LET line == merged[Len(merged)]
             rest == SubSeq(merged, 1, Len(merged) - 1)
             IsRunOf(part) ==
                 /\ Len(part) >= 2
                 /\ \E off \in 0..(Len(line) - Len(part)) :
                       \A i \in 1..Len(part) : part[i] = line[i + off]
         IN  \/ geoms # <<>> /\ IsRunOf(geoms[1]) /\ Survivors(rest, Tail(geoms))
             \/ Survivors(rest, geoms)

C6_ResultByCount ==
    (ssb.pc = "done" /\ ssb.result.kind = "geometry" /\ ssb.distance # 0) =>
        LET n == Len(ssb.mergedLinesGeom) IN
        /\ ssb.g.type = "LineString"
        /\ Survivors(ssb.merged, ssb.mergedLinesGeom)
        /\ ssb.bufEmpty => n = 0
        /\ n = 1 => /\ ssb.result.type = "LineString"
                    /\ ssb.result.lines = <<ssb.mergedLinesGeom[1]>>
        /\ n > 1 => /\ ssb.result.type = "MultiLineString"
                    /\ ssb.result.lines = ssb.mergedLinesGeom
        /\ n = 0 => /\ ssb.result.type = "LineString"
                    /\ ssb.result.lines = <<>>
        /\ ssb.result.type = "MultiLineString" => Len(ssb.result.lines) >= 2

\* two merged lines, one trimmed away: a single linestring is returned
C6_Witness ==
    /\ ssb.pc = "done"
    /\ ssb.g = Line1
    /\ ssb.distance = 10
    /\ ssb.merged = <<PolyDrop, PolyTrim>>
    /\ ssb.result.kind = "geometry"
    /\ ssb.result.type = "LineString"
    /\ ssb.result.lines = <<<<<<0, 10>>, <<20, 10>>>>>>

----------------------------------------------------------------------------
(* C8: endpoint trimming: for every merged polyline and every distance d,  *)
(* positive or negative, a vertex is removed from an end exactly while     *)
(* that end vertex lies within max(|d| - 0.1 L, 0.98 |d|) of the input's   *)
(* start point or end point and the segment adjacent to that end has       *)
(* length <= 1.02 |d|; trimming at an end stops at the first end vertex    *)
(* for which this fails.  (L: the length of the input line.)               *)

C8_Abs(x) == IF x < 0 THEN -x ELSE x

\* |pq| < max(a - 0.1 L, 0.98 a)
C8_Closer(p, q, a) ==
    LET m == Max(100 * a - 10 * getLength(ssb.g.coords), 98 * a)
    IN  m > 0 /\ 10000 * Dist2(p, q) < m * m

\* |pq| <= 1.02 a
C8_Short(p, q, a) == a >= 0 /\ 10000 * Dist2(p, q) <= (102 * a) * (102 * a)

\* vertex i (from 0) may go, its neighbour being vertex j, for the points in refs
C8_Removable(i, j, refs, a) ==
    /\ \E ref \in refs : C8_Closer(getAt(ssb.coords, i), ref, a)
    /\ C8_Short(getAt(ssb.coords, i), getAt(ssb.coords, j), a)

C8_Ends == {ssb.g.coords[1], ssb.g.coords[Len(ssb.g.coords)]}

C8_Original ==
    ssb.pc = "emit" =>
        LET a == C8_Abs(ssb.distance) IN
        /\ \A k \in 0..(ssb.front - 1) : C8_Removable(k, k + 1, C8_Ends, a)
        /\ \A k \in (ssb.back + 1)..(Len(ssb.coords) - 1) : C8_Removable(k, k - 1, C8_Ends, a)
        /\ ssb.front < ssb.back => ~C8_Removable(ssb.front, ssb.front + 1, C8_Ends, a)
        /\ ssb.front < ssb.back => ~C8_Removable(ssb.back, ssb.back - 1, C8_Ends, a)

(* C8 as amended: the allowances are taken from d itself, so for d < 0     *)
(* nothing is removed; for d > 0 the front loses vertices first while the  *)
(* front vertex is closer than max(d - 0.1 L, 0.98 d) to the start point,  *)
(* then while it is that close to the end point, each time only when the   *)
(* segment to the next vertex is no longer than 1.02 d and more than one   *)
(* vertex is left; then the back likewise.  A vertex close to the start    *)
(* point only that becomes an end vertex in the end-point loop stays.      *)

C8_TrimBySignedDistance ==
    ssb.pc = "emit" =>
        LET d == ssb.distance
            last == Len(ssb.coords) - 1
            s == {ssb.g.coords[1]}
            e == {ssb.g.coords[Len(ssb.g.coords)]}
        IN  /\ ssb.sz = ssb.back - ssb.front + 1
            /\ 0 <= ssb.front /\ ssb.front <= ssb.back /\ ssb.back <= last
            /\ d < 0 => ssb.front = 0 /\ ssb.back = last
            /\ \E f1 \in 0..ssb.front :
                  /\ \A k \in 0..(f1 - 1) : C8_Removable(k, k + 1, s, d)
                  /\ f1 = last \/ ~C8_Removable(f1, f1 + 1, s, d)
                  /\ \A k \in f1..(ssb.front - 1) : C8_Removable(k, k + 1, e, d)
                  /\ ssb.front = last \/ ~C8_Removable(ssb.front, ssb.front + 1, e, d)
            /\ \E b1 \in ssb.back..last :
                  /\ \A k \in (b1 + 1)..last : C8_Removable(k, k - 1, s, d)
                  /\ b1 = ssb.front \/ ~C8_Removable(b1, b1 - 1, s, d)
                  /\ \A k \in (ssb.back + 1)..b1 : C8_Removable(k, k - 1, e, d)
                  /\ ssb.back = ssb.front \/ ~C8_Removable(ssb.back, ssb.back - 1, e, d)

\* the front lost a vertex that was close to the end point only, and the
\* vertex now in front, close to the start point, stays
C8_Witness ==
    /\ ssb.pc = "emit"
    /\ ssb.g = Line1
    /\ ssb.distance = 10
    /\ ssb.coords = <<<<11, 1>>, <<9, 1>>, <<10, 10>>>>
    /\ ssb.front = 1
    /\ ssb.back = 2

----------------------------------------------------------------------------
(* Specification SpecMerge: insertUniqueEdge called with arbitrary edges,  *)
(* the builder's log keeping every edge handed in, in call order.  The     *)
(* chains include a collapsed one (A, B, A), which reads the same in both  *)
(* directions.                                                             *)

MergeChains ==
    {<<PtA, PtB>>, <<PtB, PtA>>, <<PtA, PtB, PtA>>, <<PtB, PtC>>}

MergeLabels ==
    {LabelIE, LabelEI,
     [on |-> "BOUNDARY", left |-> "NONE", right |-> "NONE"],
     [on |-> "BOUNDARY", left |-> "INTERIOR", right |-> "NONE"],
     [on |-> "BOUNDARY", left |-> "EXTERIOR", right |-> "EXTERIOR"]}

MergeInputs == {NewEdge(c, l) : c \in MergeChains, l \in MergeLabels}

InitMerge == InitEdges

InsertLogged ==
    /\ nInserts < MaxInserts
    /\ \E e \in MergeInputs :
          /\ builders' = [builders EXCEPT
                            ![1].edgeList = insertUniqueEdge(@, e),
                            ![1].log = Append(@, e)]
          /\ lastEdge' = e
    /\ nInserts' = nInserts + 1
    /\ UNCHANGED <<stack, interrupt, live, outcome, rets, ssb>>

NextMerge == InsertLogged

SpecMerge == InitMerge /\ [][NextMerge]_vars

----------------------------------------------------------------------------
(* C11: when insertUniqueEdge receives an edge e equal to a stored edge x, *)
(* the incoming label is flipped if and only if e's chain is the reverse   *)
(* of x's chain, the (possibly flipped) label is merged into x's label and *)
(* x's depthDelta grows by the depth delta of the (possibly flipped)       *)
(* label; so x's depthDelta is the sum, over every inserted edge equal to  *)
(* x, of its label's depth delta, negated for those inserted in the        *)
(* direction opposite to x.                                                *)

\* LEFT and RIGHT exchanged
C11_Flipped(label) ==
    [on |-> label.on, left |-> label.right, right |-> label.left]

C11_IsReverse(x, e) == e.pts = Reverse(x.pts)

C11_NotIdentical(x, e) == e.pts # x.pts

\* when the label counts as handed in against x: by the claim's words (the
\* chain of e is the reverse of the chain of x), or as amended
C11_Opposite(x, e, asWorded) ==
    IF asWorded THEN C11_IsReverse(x, e) ELSE C11_NotIdentical(x, e)

\* what the claim asks of one call
C11_Step(asWorded) ==
    LET old == builders[1].edgeList
        new == builders'[1].edgeList
        e   == lastEdge'
    IN  nInserts' = nInserts + 1 =>
          \A k \in 1..Len(old) :
              EdgeEquals(old[k], e) =>
                  LET x   == old[k]
                      lab == IF C11_Opposite(x, e, asWorded) THEN C11_Flipped(e.label)
                             ELSE e.label
                  IN  /\ new[k].pts = x.pts
                      /\ new[k].label = merge(x.label, lab)
                      /\ new[k].depthDelta = x.depthDelta + C10_LabelDelta(lab)

\* the sum of the claim over the edges handed in so far
RECURSIVE C11_Sum(_, _, _)
C11_Sum(log, x, asWorded) ==
    IF log = <<>> THEN 0
    ELSE LET e == log[Len(log)]
             rest == C11_Sum(SubSeq(log, 1, Len(log) - 1), x, asWorded)
         IN  IF ~EdgeEquals(x, e) THEN rest
             ELSE IF C11_Opposite(x, e, asWorded) THEN rest - C10_LabelDelta(e.label)
             ELSE rest + C10_LabelDelta(e.label)

C11_Total(asWorded) ==
    LET el == builders[1].edgeList IN
    \A k \in 1..Len(el) :
        el[k].depthDelta = C11_Sum(builders[1].log, el[k], asWorded)

----------------------------------------------------------------------------
(* Specification SpecSubgraphs: createSubgraphs followed by buildSubgraphs *)
(* on a planar graph, one action per loop iteration or call.  The running  *)
(* activation is the only frame of the stack: it holds the graph, the      *)
(* loop index, subgraphList, processedGraphs, what the polygon builder     *)
(* was handed, and the calls made on subgraphs and on the depth locater.   *)

MaxNodes == 6
MaxComps == 3

\* the coordinate of node k; graph->getNodes hands the nodes out in the
\* order of their coordinates, which is the order of k
NodeCoord(k) == <<(k - 1) \div 2, (k - 1) % 2>>

\* the graphs: every node has an edge; the nodes of one component are
\* chained in node order
GraphEdges(n, comp) ==
    { {q[1], q[2]} : q \in
        { q \in (1..n) \X (1..n) :
            /\ q[1] < q[2]
            /\ comp[q[1]] = comp[q[2]]
            /\ \A c \in (q[1] + 1)..(q[2] - 1) : comp[c] # comp[q[1]] } }

Graphs ==
    UNION { { [n |-> n, adj |-> GraphEdges(n, comp)] :
                comp \in [1..n -> 1..MaxComps] } : n \in 0..MaxNodes }

IsGraph(g) ==
    /\ \A e \in g.adj : e \subseteq 1..g.n
    /\ \A a \in 1..g.n : \E e \in g.adj : a \in e /\ Cardinality(e) = 2

\* BufferSubgraph::create: the nodes reached from a start node along edges,
\* through nodes not visited before
RECURSIVE addReachable(_, _, _)
addReachable(adj, visited, found) ==
    LET next == found \cup
                { b \in UNION adj : b \notin visited /\
                                    \E a \in found : {a, b} \in adj }
    IN  IF next = found THEN found ELSE addReachable(adj, visited, next)

\* the rightmost coordinate of a set of nodes: greatest x, then greatest y
getRightmostCoordinate(nodes) ==
    LET k == CHOOSE a \in nodes :
                \A b \in nodes :
                    \/ NodeCoord(b)[1] < NodeCoord(a)[1]
                    \/ /\ NodeCoord(b)[1] = NodeCoord(a)[1]
                       /\ NodeCoord(b)[2] <= NodeCoord(a)[2]
    IN  NodeCoord(k)

\* new BufferSubgraph(); subgraph->create(node)
NewSubgraph(id, adj, visited, node) ==
    LET nodes == addReachable(adj, visited, {node}) IN
    [id |-> id, start |-> node, nodes |-> nodes,
     rightMostCoord |-> getRightmostCoordinate(nodes)]

\* BufferSubgraph::compareTo: by the x of the rightmost coordinates
compareTo(first, second) ==
    IF first.rightMostCoord[1] < second.rightMostCoord[1] THEN -1
    ELSE IF first.rightMostCoord[1] > second.rightMostCoord[1] THEN 1
    ELSE 0

BufferSubgraphLT(first, second) == compareTo(first, second) < 0

BufferSubgraphGT(first, second) ==
    IF compareTo(first, second) > 0 THEN TRUE ELSE FALSE

\* std::sort(begin, end, BufferSubgraphGT): some arrangement of the list in
\* which no element comes before one that BufferSubgraphGT puts before it
StdSort(list) ==
    LET n == Len(list)
        perms == { f \in [1..n -> 1..n] : \A i, j \in 1..n : i # j => f[i] # f[j] }
    IN  { [i \in 1..n |-> list[f[i]]] : f \in
            { f \in perms :
                \A i, j \in 1..n : i < j => ~BufferSubgraphGT(list[f[j]], list[f[i]]) } }

NewGraphFrame(g) ==
    [pc |-> "createSubgraphs", n |-> g.n, adj |-> g.adj, visited |-> {},
     i |-> 1, subgraphList |-> <<>>, processedGraphs |-> <<>>,
     polyBuilder |-> <<>>, outsideDepth |-> 0, calls |-> <<>>]

Call(f, name, sg, arg) ==
    [f EXCEPT !.calls = Append(@, [name |-> name, sg |-> sg, arg |-> arg])]

GraphStep(f) ==
    /\ stack' = <<f>>
    /\ UNCHANGED <<builders, nInserts, lastEdge, interrupt, live, outcome, rets, ssb>>

\* createSubgraphs, lines 729-736: one iteration of the loop over the nodes
CsNode ==
    /\ At("createSubgraphs")
    /\ Top.i <= Top.n
    /\ LET node == Top.i IN
       IF node \notin Top.visited
       THEN LET subgraph == NewSubgraph(Len(Top.subgraphList) + 1, Top.adj,
                                        Top.visited, node)
            IN  GraphStep([Top EXCEPT
                    !.visited = @ \cup subgraph.nodes,
                    !.subgraphList = Append(@, subgraph),
                    !.i = @ + 1])
       ELSE GraphStep([Top EXCEPT !.i = @ + 1])

\* createSubgraphs, line 744, and the return into buffer(), which calls
\* buildSubgraphs on the list
CsSort ==
    /\ At("createSubgraphs")
    /\ Top.i > Top.n
    /\ \E sorted \in StdSort(Top.subgraphList) :
          GraphStep([Top EXCEPT !.subgraphList = sorted, !.i = 1,
                                !.pc = "buildSubgraphs"])

\* buildSubgraphs asking the locater about every subgraph of the list
BsGetDepthAll ==
    /\ At("buildSubgraphs")
    /\ IF Top.i > Len(Top.subgraphList)
       THEN GraphStep([Top EXCEPT !.pc = "done"])
       ELSE LET subgraph == Top.subgraphList[Top.i] IN
            \E d \in {0, 1} :
                GraphStep([Call(Top, "getDepth", subgraph.id,
                                [p |-> subgraph.rightMostCoord,
                                 graphs |-> [k \in 1..Len(Top.subgraphList) |->
                                                Top.subgraphList[k].id],
                                 depth |-> d])
                           EXCEPT !.outsideDepth = d, !.pc = "computeDepth"])

\* buildSubgraphs, lines 756-771: the loop test, the subgraph's rightmost
\* coordinate, a locater on processedGraphs, its depth at the coordinate
\* (0 when no processed subgraph lies around it)
BsGetDepth ==
    /\ At("buildSubgraphs")
    /\ IF Top.i > Len(Top.subgraphList)
       THEN GraphStep([Top EXCEPT !.pc = "done"])
       ELSE LET subgraph == Top.subgraphList[Top.i]
                p == subgraph.rightMostCoord
            IN  \E d \in (IF Top.processedGraphs = <<>> THEN {0} ELSE {0, 1}) :
                    GraphStep([Call(Top, "getDepth", subgraph.id,
                                    [p |-> p,
                                     graphs |-> [k \in 1..Len(Top.processedGraphs) |->
                                                    Top.processedGraphs[k].id],
                                     depth |-> d])
                               EXCEPT !.outsideDepth = d, !.pc = "computeDepth"])

\* line 775; computeDepth may fail with a TopologyException
BsComputeDepth ==
    /\ At("computeDepth")
    /\ \/ GraphStep([Call(Top, "computeDepth", Top.subgraphList[Top.i].id,
                          Top.outsideDepth)
                     EXCEPT !.pc = "findResultEdges"])
       \/ GraphStep([Call(Top, "computeDepth", Top.subgraphList[Top.i].id,
                          Top.outsideDepth)
                     EXCEPT !.pc = "thrown"])

\* line 776
BsFindResultEdges ==
    /\ At("findResultEdges")
    /\ GraphStep([Call(Top, "findResultEdges", Top.subgraphList[Top.i].id, 0)
                  EXCEPT !.pc = "push_back"])

\* line 783
BsPushBack ==
    /\ At("push_back")
    /\ GraphStep([Call(Top, "push_back", Top.subgraphList[Top.i].id, 0)
                  EXCEPT !.processedGraphs = Append(@, Top.subgraphList[Top.i]),
                         !.pc = "polyBuilder.add"])

\* line 788 and the loop increment
BsPolyBuilderAdd ==
    /\ At("polyBuilder.add")
    /\ GraphStep([Call(Top, "polyBuilder.add", Top.subgraphList[Top.i].id, 0)
                  EXCEPT !.polyBuilder = Append(@, Top.subgraphList[Top.i].id),
                         !.i = @ + 1,
                         !.pc = "buildSubgraphs"])

InitSubgraphs ==
    /\ builders = <<NewBuilder(DefaultParams, "null")>>
    /\ nInserts = 0
    /\ lastEdge = NoEdge
    /\ \E g \in Graphs : IsGraph(g) /\ stack = <<NewGraphFrame(g)>>
    /\ interrupt = FALSE
    /\ live = NoLive
    /\ outcome = NoOutcome
    /\ rets = {}
    /\ ssb = NoSsb

NextSubgraphs ==
    \/ CsNode
    \/ CsSort
    \/ BsGetDepth
    \/ BsComputeDepth
    \/ BsFindResultEdges
    \/ BsPushBack
    \/ BsPolyBuilderAdd

SpecSubgraphs == InitSubgraphs /\ [][NextSubgraphs]_vars

----------------------------------------------------------------------------
(* C12: buildSubgraphs handles the subgraphs strictly in list order; for   *)
(* the i-th subgraph the depth locater is asked about that subgraph's      *)
(* rightmost coordinate against exactly the first i-1 subgraphs of the     *)
(* list; for each subgraph the calls come in the order depth query,        *)
(* computeDepth(outsideDepth), findResultEdges, append to processedGraphs, *)
(* hand-over to the polygon builder, all before the next subgraph is       *)
(* queried, and each subgraph is appended and handed over exactly once.    *)

C12_Order ==
    <<"getDepth", "computeDepth", "findResultEdges", "push_back", "polyBuilder.add">>

C12_Ids(list) == [k \in 1..Len(list) |-> list[k].id]

C12_BuildInListOrder ==
    LET f == stack[1]
        list == f.subgraphList
    IN  f.pc # "createSubgraphs" =>
          /\ Len(f.calls) <= 5 * Len(list)
          /\ \A j \in 1..Len(f.calls) :
                LET i == ((j - 1) \div 5) + 1
                    c == f.calls[j]
                IN  /\ c.name = C12_Order[((j - 1) % 5) + 1]
                    /\ c.sg = list[i].id
                    /\ c.name = "getDepth" =>
                          /\ c.arg.p = list[i].rightMostCoord
                          /\ c.arg.graphs = C12_Ids(SubSeq(list, 1, i - 1))
                    /\ c.name = "computeDepth" => c.arg = f.calls[j - 1].arg.depth
          /\ C12_Ids(f.processedGraphs) =
                C12_Ids(SubSeq(list, 1, Len(f.processedGraphs)))
          /\ f.polyBuilder = C12_Ids(SubSeq(list, 1, Len(f.polyBuilder)))
          /\ \A i, j \in 1..Len(list) : i # j => list[i].id # list[j].id
          /\ f.pc = "done" =>
                /\ Len(f.calls) = 5 * Len(list)
                /\ C12_Ids(f.processedGraphs) = C12_Ids(list)
                /\ f.polyBuilder = C12_Ids(list)

\* three subgraphs, which the sort has put in another order than they were
\* created in, have all been handed to the polygon builder
C12_Witness ==
    /\ stack[1].pc = "done"
    /\ Len(stack[1].subgraphList) = 3
    /\ stack[1].subgraphList[1].id # 1
    /\ Len(stack[1].polyBuilder) = 3
    /\ stack[1].calls[11].arg.graphs =
          <<stack[1].subgraphList[1].id, stack[1].subgraphList[2].id>>

----------------------------------------------------------------------------
(* C13: createSubgraphs creates exactly one subgraph per node that is      *)
(* unvisited when the node loop reaches it (a node visited by an earlier   *)
(* subgraph's traversal starts none), so every node of the graph belongs   *)
(* to exactly one subgraph; on return the list is in descending order of   *)
(* rightmost coordinate: for positions i < j the i-th subgraph's rightmost *)
(* coordinate (its x) is not less than the j-th's.                         *)

C13_NodeStep ==
    LET f == stack[1]
        g == stack'[1]
    IN  (f.pc = "createSubgraphs" /\ g.pc = "createSubgraphs" /\ g.i = f.i + 1) =>
          IF f.i \in f.visited
          THEN g.subgraphList = f.subgraphList
          ELSE /\ Len(g.subgraphList) = Len(f.subgraphList) + 1
               /\ SubSeq(g.subgraphList, 1, Len(f.subgraphList)) = f.subgraphList
               /\ g.subgraphList[Len(g.subgraphList)].start = f.i
               /\ f.i \in g.subgraphList[Len(g.subgraphList)].nodes

C13_Partition ==
    LET f == stack[1]
        list == f.subgraphList
        reached == IF f.pc = "createSubgraphs" THEN 1..(f.i - 1) ELSE 1..f.n
    IN  /\ \A a \in reached :
              Cardinality({k \in 1..Len(list) : a \in list[k].nodes}) = 1
        /\ \A k \in 1..Len(list) : list[k].nodes \subseteq 1..f.n
        /\ Len(list) =
              Cardinality({a \in reached : \E k \in 1..Len(list) : list[k].start = a})

C13_Sorted ==
    LET f == stack[1]
        list == f.subgraphList
    IN  f.pc # "createSubgraphs" =>
          \A i, j \in 1..Len(list) :
              i < j => list[i].rightMostCoord[1] >= list[j].rightMostCoord[1]

C13_OnePerComponentSorted ==
    /\ [](C13_Partition /\ C13_Sorted)
    /\ [][C13_NodeStep]_vars

\* createSubgraphs has returned three subgraphs of two nodes each, the one
\* created last now first in the list
C13_Witness ==
    /\ stack[1].pc = "buildSubgraphs"
    /\ stack[1].calls = <<>>
    /\ Len(stack[1].subgraphList) = 3
    /\ stack[1].subgraphList[1].id = 3
    /\ stack[1].subgraphList[3].id = 1
    /\ \A k \in 1..3 : Cardinality(stack[1].subgraphList[k].nodes) = 2

----------------------------------------------------------------------------
(* Specification SpecTrimFair: the trimming of SpecTrim, the running call  *)
(* always taking its next step.                                            *)

SpecTrimFair == SpecTrim /\ WF_vars(NextTrim)

----------------------------------------------------------------------------
(* C14: endpoint trimming keeps, for every merged polyline of at least 2   *)
(* vertices, 0 <= front <= back <= size - 1 with sz = back - front + 1     *)
(* >= 1, never reads a vertex outside [front, back], and ends after at     *)
(* most size - 1 removals; every linestring it emits is the run of         *)
(* vertices front..back of the merged polyline in original order, of at    *)
(* least 2 vertices, and a polyline trimmed down to one vertex is dropped, *)
(* not emitted.                                                            *)

C14_Trimming == ssb.pc \in {"frontStart", "frontEnd", "backStart", "backEnd", "emit"}

C14_Indices ==
    (C14_Trimming /\ Len(ssb.coords) >= 2) =>
        /\ 0 <= ssb.front
        /\ ssb.front <= ssb.back
        /\ ssb.back <= Len(ssb.coords) - 1
        /\ ssb.sz = ssb.back - ssb.front + 1
        /\ ssb.sz >= 1
        /\ Len(ssb.removed) <= Len(ssb.coords) - 1
        /\ ssb.sz = Len(ssb.coords) - Len(ssb.removed)

C14_Reads ==
    \A r \in ssb.reads : r.front <= r.at /\ r.at <= r.back

C14_EmitStep ==
    (ssb.pc = "emit" /\ ssb'.pc = "trimNext" /\ Len(ssb.coords) >= 2) =>
        IF ssb.back - ssb.front + 1 >= 2
        THEN /\ ssb'.mergedLinesGeom =
                   Append(ssb.mergedLinesGeom,
                          SubSeq(ssb.coords, ssb.front + 1, ssb.back + 1))
             /\ Len(ssb'.mergedLinesGeom[Len(ssb'.mergedLinesGeom)]) >= 2
        ELSE ssb'.mergedLinesGeom = ssb.mergedLinesGeom

C14_TrimWithinBounds ==
    /\ [](C14_Indices /\ C14_Reads)
    /\ [][C14_EmitStep]_vars
    /\ <>(ssb.pc = "done")

\* a polyline of three vertices has lost its front vertex and been emitted
\* as the run of its last two
C14_Witness ==
    /\ ssb.pc = "done"
    /\ Len(ssb.coords) = 3
    /\ ssb.removed = <<[at |-> 0, loop |-> "frontStart"]>>
    /\ ssb.front = 1
    /\ ssb.back = 2
    /\ ssb.mergedLinesGeom = <<SubSeq(ssb.coords, 2, 3)>>
    /\ [at |-> 2, front |-> 1, back |-> 2] \in ssb.reads

====
